---- MODULE Spec2Model ----
(***************************************************************************)
(* Model of the comment classifier: POST /analyze and GET /cache/{key}     *)
(* (src/src/main.rs), analyze_comment (src/src/services/analyzer.rs) and   *)
(* normalize_fancy_text / hash_comment (src/src/services/utils.rs).        *)
(*                                                                         *)
(* Text is a sequence of Unicode code points (Rust `char`):                *)
(*   32 ' '   33 '!'   43 '+'   44 ','   45 '-'   46 '.'   48..57 '0'..'9' *)
(*   65..90 'A'..'Z'   97..122 'a'..'z'   160 NBSP   233 e-acute           *)
(*   769 combining acute   1383 Armenian eh   8490 Kelvin sign             *)
(*   9372.. parenthesized a..z   9424.. circled a..z   64257 ligature fi   *)
(*   127344..127369 negative squared A..Z                                  *)
(***************************************************************************)
EXTENDS Integers, Sequences, FiniteSets, TLC

(***************************************************************************)
(* Bounds of the model                                                     *)
(***************************************************************************)
MaxLen == 3
NReq == 2

(***************************************************************************)
(* Sequence helpers (std iterator adaptors, str)                           *)
(***************************************************************************)
\* Iterator::flatten / collect::<String>() of per-character pieces
RECURSIVE Flatten(_)
Flatten(pieces) ==
    IF pieces = << >> THEN << >> ELSE Head(pieces) \o Flatten(Tail(pieces))

\* str::contains(&str): t occurs in s as a contiguous substring
Contains(s, t) ==
    \E i \in 1..(Len(s) - Len(t) + 1) : SubSeq(s, i, i + Len(t) - 1) = t

(***************************************************************************)
(* Character classes (core::char)                                          *)
(***************************************************************************)
IsAsciiAlphanumeric(c) ==
    (c >= 48 /\ c <= 57) \/ (c >= 65 /\ c <= 90) \/ (c >= 97 /\ c <= 122)

\* char::is_whitespace: the Unicode White_Space property
IsWhitespace(c) ==
    \/ (c >= 9 /\ c <= 13)
    \/ c \in {32, 133, 160, 5760, 8232, 8233, 8239, 8287, 12288}
    \/ (c >= 8192 /\ c <= 8202)

IsCombiningDiacritic(c) == c >= 768 /\ c <= 879

\* char::to_lowercase (Unicode lowercase mapping) on ASCII, Latin-1, the
\* Armenian capitals, the letterlike signs and the circled capitals, which
\* cover the modelled alphabet; a character without a lowercase form maps
\* to itself.
ToLowercase(c) ==
    IF c >= 65 /\ c <= 90 THEN <<c + 32>>
    ELSE IF c >= 192 /\ c <= 222 /\ c # 215 THEN <<c + 32>>
    ELSE IF c = 304 THEN <<105, 775>>                  \* I with dot above
    ELSE IF c >= 1329 /\ c <= 1366 THEN <<c + 48>>     \* Armenian capitals
    ELSE IF c = 8486 THEN <<969>>                      \* ohm sign
    ELSE IF c = 8490 THEN <<107>>                      \* Kelvin sign
    ELSE IF c = 8491 THEN <<229>>                      \* angstrom sign
    ELSE IF c >= 9398 /\ c <= 9423 THEN <<c + 26>>     \* circled capitals
    ELSE <<c>>

\* char-wise str::to_uppercase (Unicode uppercase mapping) on ASCII,
\* Latin-1, the Armenian small letters, the ligature fi and the circled
\* small letters; a character without an uppercase form maps to itself.
ToUppercaseChar(c) ==
    IF c >= 97 /\ c <= 122 THEN <<c - 32>>
    ELSE IF c = 181 THEN <<924>>                       \* micro sign
    ELSE IF c = 223 THEN <<83, 83>>                    \* sharp s
    ELSE IF c >= 224 /\ c <= 254 /\ c # 247 THEN <<c - 32>>
    ELSE IF c = 255 THEN <<376>>
    ELSE IF c >= 1377 /\ c <= 1414 THEN <<c - 48>>     \* Armenian small letters
    ELSE IF c = 1415 THEN <<1333, 1362>>               \* Armenian ligature ech yiwn
    ELSE IF c >= 9424 /\ c <= 9449 THEN <<c - 26>>     \* circled small letters
    ELSE IF c = 64257 THEN <<70, 73>>                  \* ligature fi
    ELSE <<c>>

ToUppercase(s) == Flatten([i \in 1..Len(s) |-> ToUppercaseChar(s[i])])

(***************************************************************************)
(* utils.rs: FANCY_MAP and normalize_fancy_text                            *)
(***************************************************************************)
\* FANCY_MAP.get(&c).unwrap_or(&c)
FancyMap(c) ==
    IF c >= 127344 /\ c <= 127369 THEN c - 127344 + 65      \* negative squared A..Z
    ELSE IF c >= 120276 /\ c <= 120301 THEN c - 120276 + 65 \* sans-serif bold A..Z
    ELSE IF c >= 120432 /\ c <= 120457 THEN c - 120432 + 65 \* monospace A..Z
    ELSE IF c >= 120782 /\ c <= 120790 THEN c - 120782 + 48 \* bold digits 0..8
    ELSE IF c = 1383 THEN 116                               \* Armenian eh -> t
    ELSE IF c = 1413 THEN 111                               \* Armenian oh -> o
    ELSE IF c >= 9372 /\ c <= 9397 THEN c - 9372 + 97       \* parenthesized a..z
    ELSE IF c >= 9424 /\ c <= 9449 THEN c - 9424 + 97       \* circled a..z
    ELSE c

\* Compatibility decomposition (NFKD) of one character, for the characters
\* of the modelled alphabet; ASCII decomposes to itself.
Nfkd(c) ==
    IF c = 233 THEN <<101, 769>>
    ELSE IF c = 201 THEN <<69, 769>>
    ELSE IF c = 160 THEN <<32>>
    ELSE IF c = 8490 THEN <<75>>
    ELSE IF c = 64257 THEN <<102, 105>>
    ELSE IF c >= 9424 /\ c <= 9449 THEN <<c - 9424 + 97>>
    ELSE IF c >= 9372 /\ c <= 9397 THEN <<40, c - 9372 + 97, 41>>
    ELSE IF c >= 120276 /\ c <= 120301 THEN <<c - 120276 + 65>>
    ELSE IF c >= 120432 /\ c <= 120457 THEN <<c - 120432 + 65>>
    ELSE IF c >= 120782 /\ c <= 120791 THEN <<c - 120782 + 48>>
    ELSE <<c>>

\* The steps of normalize_fancy_text, each over a whole text.  The
\* decomposition is taken character by character: what it would reorder
\* across characters are combining marks, which the filters remove.
MapFancy(s) == [i \in 1..Len(s) |-> FancyMap(s[i])]
Decompose(s) == Flatten([i \in 1..Len(s) |-> Nfkd(s[i])])
NotCombining(c) == ~IsCombiningDiacritic(c)
AlnumOrSpace(c) == IsAsciiAlphanumeric(c) \/ IsWhitespace(c)
Lowercase(s) == Flatten([i \in 1..Len(s) |-> ToLowercase(s[i])])

\* Variant: the steps in another order, lowercasing first
normalize_lowercase_first(input) ==
    SelectSeq(SelectSeq(Decompose(MapFancy(Lowercase(input))), NotCombining),
              AlnumOrSpace)

normalize_fancy_text(input) ==
    Lowercase(
      SelectSeq(SelectSeq(Decompose(MapFancy(input)), NotCombining),
                AlnumOrSpace))

\* Variant: the digest is taken of the comment as posted
hash_comment_raw(comment) == <<"blake3", comment>>

\* blake3 digest of the normalized text, taken as collision free: the
\* digest is represented by the text it was computed from.
hash_comment(comment) == <<"blake3", normalize_fancy_text(comment)>>

(***************************************************************************)
(* analyzer.rs: remove_all_whitespace                                      *)
(***************************************************************************)
NotWhitespace(c) == ~IsWhitespace(c)
remove_all_whitespace(s) == SelectSeq(s, NotWhitespace)

(***************************************************************************)
(* analyzer.rs: text of the provider's answer -> fields                    *)
(***************************************************************************)
\* str::split(','): the pieces between the separators; an empty text gives
\* one empty piece.
RECURSIVE SplitFrom(_, _, _)
SplitFrom(s, sep, cur) ==
    IF s = << >> THEN <<cur>>
    ELSE IF Head(s) = sep THEN <<cur>> \o SplitFrom(Tail(s), sep, << >>)
    ELSE SplitFrom(Tail(s), sep, Append(cur, Head(s)))

Split(s, sep) == SplitFrom(s, sep, << >>)

IsDigit(c) == c >= 48 /\ c <= 57
IsSign(c) == c = 43 \/ c = 45
AllDigits(s) == \A i \in 1..Len(s) : IsDigit(s[i])

RECURSIVE DigitsValue(_)
DigitsValue(s) ==
    IF s = << >> THEN 0
    ELSE 10 * DigitsValue(SubSeq(s, 1, Len(s) - 1)) + (s[Len(s)] - 48)

RECURSIVE StripZeros(_)
StripZeros(s) ==
    IF Len(s) > 1 /\ Head(s) = 48 THEN StripZeros(Tail(s)) ELSE s

\* The digits d (no leading zeros) are within i32: at most 2147483647, or
\* 2147483648 behind a minus sign
FitsI32(d, neg) ==
    \/ Len(d) < 10
    \/ /\ Len(d) = 10
       /\ LET high == DigitsValue(SubSeq(d, 1, 9))
              last == d[10] - 48
          IN  high < 214748364
              \/ (high = 214748364 /\ last <= (IF neg THEN 8 ELSE 7))

\* <i32 as FromStr>::from_str: optional sign, at least one digit, in range.
ParseI32(s) ==
    LET signed == s # << >> /\ IsSign(Head(s))
        neg    == signed /\ Head(s) = 45
        digits == IF signed THEN Tail(s) ELSE s
        d      == StripZeros(digits)
    IN  IF digits = << >> \/ ~AllDigits(digits) \/ ~FitsI32(d, neg)
        THEN [ok |-> FALSE, val |-> 0]
        ELSE IF neg /\ Len(d) = 10 /\ d[10] = 56 /\ DigitsValue(SubSeq(d, 1, 9)) = 214748364
        THEN [ok |-> TRUE, val |-> 0 - 2147483647 - 1]
        ELSE [ok |-> TRUE, val |-> IF neg THEN 0 - DigitsValue(d) ELSE DigitsValue(d)]

\* A decimal value m * 10^e with m not a multiple of 10 (0 is m = 0, e = 0)
RECURSIVE Decimal(_, _, _)
Decimal(neg, m, e) ==
    IF m = 0 THEN [neg |-> neg, mant |-> 0, exp |-> 0]
    ELSE IF m % 10 = 0 THEN Decimal(neg, m \div 10, e + 1)
    ELSE [neg |-> neg, mant |-> m, exp |-> e]

\* <f64 as FromStr>::from_str on texts made of a sign, digits and a point:
\* optional sign, digits with at most one point and at least one digit.
\* (Exponents and the words inf / nan need letters the modelled answers do
\* not contain.)  The value is kept as an exact decimal.
ParseF64(s) ==
    LET signed == s # << >> /\ IsSign(Head(s))
        body   == IF signed THEN Tail(s) ELSE s
        pieces == Split(body, 46)
        int    == pieces[1]
        frac   == IF Len(pieces) = 2 THEN pieces[2] ELSE << >>
    IN  IF Len(pieces) > 2 \/ ~AllDigits(int) \/ ~AllDigits(frac)
           \/ Len(int) + Len(frac) = 0
        THEN [ok |-> FALSE, val |-> Decimal(FALSE, 0, 0)]
        ELSE [ok |-> TRUE,
              val |-> Decimal(signed /\ Head(s) = 45,
                              DigitsValue(int \o frac), 0 - Len(frac))]

(***************************************************************************)
(* analyzer.rs: results, errors and the provider's payload                 *)
(***************************************************************************)
\* AnalyzeResponse { spam, keyword, confidence }
Ok(spam, keyword, confidence) ==
    [ok |-> TRUE, spam |-> spam, keyword |-> keyword, confidence |-> confidence]

\* CustomError(String), built by the From impls
Err(msg) == [ok |-> FALSE, err |-> msg]
GenericError(msg) == Err(<<"Generic error", msg>>)
ReqwestError == Err(<<"Reqwest error">>)
SerdeJsonError == Err(<<"Serde JSON error">>)

\* What serde_json::from_str gives for the provider's body.  A field holds
\* the items of its array (present = FALSE: the field is missing or is not
\* an array); an item holds the text found under message.content (choices)
\* or content.parts[0].text (candidates), isStr = FALSE when there is no
\* string there.
Text(t) == [isStr |-> TRUE, text |-> t]
NoText == [isStr |-> FALSE, text |-> << >>]
Array(items) == [present |-> TRUE, items |-> items]
NoArray == [present |-> FALSE, items |-> << >>]
Json(choices, candidates) ==
    [json |-> TRUE, choices |-> choices, candidates |-> candidates]
NotJson == [json |-> FALSE, choices |-> NoArray, candidates |-> NoArray]

\* Variant: the field count is checked with < instead of !=
ParseFieldsAtLeastThree(content) ==
    LET parts      == Split(content, 44)
        spam       == ParseI32(parts[1])
        confidence == ParseF64(parts[3])
    IN  IF Len(parts) < 3 THEN GenericError("Invalid content format")
        ELSE IF ~spam.ok THEN GenericError("Invalid spam value")
        ELSE IF ~confidence.ok THEN GenericError("Invalid confidence value")
        ELSE Ok(spam.val = 1, parts[2], confidence.val)

\* The three fields of the answer: parts.len() != 3, then the two parses
ParseFields(content) ==
    LET parts      == Split(content, 44)
        spam       == ParseI32(parts[1])
        confidence == ParseF64(parts[3])
    IN  IF Len(parts) # 3 THEN GenericError("Invalid content format")
        ELSE IF ~spam.ok THEN GenericError("Invalid spam value")
        ELSE IF ~confidence.ok THEN GenericError("Invalid confidence value")
        ELSE Ok(spam.val = 1, parts[2], confidence.val)

\* One branch of the parse: the array named by the configured service
ParseArray(arr, emptyMsg) ==
    IF ~arr.present THEN GenericError("Invalid response format")
    ELSE IF arr.items = << >> THEN GenericError(emptyMsg)
    ELSE IF ~arr.items[1].isStr THEN GenericError("Invalid content format")
    ELSE ParseFields(arr.items[1].text)

\* Variant: the branch is taken by what the body holds, not by AI_SERVICE
ParseResponseBySniffing(service_is_gemini, payload) ==
    IF ~payload.json THEN SerdeJsonError
    ELSE IF payload.candidates.present
    THEN ParseArray(payload.candidates, "No candidates found in response")
    ELSE ParseArray(payload.choices, "No choices found in response")

\* analyze_comment from the decoded body on, under AI_SERVICE
ParseResponse(service_is_gemini, payload) ==
    IF ~payload.json THEN SerdeJsonError
    ELSE IF service_is_gemini
    THEN ParseArray(payload.candidates, "No candidates found in response")
    ELSE ParseArray(payload.choices, "No choices found in response")

(***************************************************************************)
(* Inputs of the model                                                     *)
(***************************************************************************)
\* Request ids, in arrival order
Requests == 1..NReq

\* Comments posted to /analyze: negative-squared K " 7", "K 7", "1 2".
\* The first two normalize to the same text, "k 7".
Comments == { <<127354, 32, 55>>, <<75, 32, 55>>, <<49, 32, 50>> }

\* Texts the provider answers with:
\*   "1,K,0.9"  "0,7,0.10"  "1,1 2,0.9"  "2,K,0.5"
\*   "1,K"  "1,K,0.9,1"  "x,K,0.5"  "1,K,z"
Contents ==
    { <<49, 44, 75, 44, 48, 46, 57>>,
      <<48, 44, 55, 44, 48, 46, 49, 48>>,
      <<49, 44, 49, 32, 50, 44, 48, 46, 57>>,
      <<50, 44, 75, 44, 48, 46, 53>>,
      <<49, 44, 75>>,
      <<49, 44, 75, 44, 48, 46, 57, 44, 49>>,
      <<120, 44, 75, 44, 48, 46, 53>>,
      <<49, 44, 75, 44, 122>> }

\* The two shapes of a body around a text
ShapeA(t) == Json(Array(<<Text(t)>>), NoArray)
ShapeB(t) == Json(NoArray, Array(<<Text(t)>>))

\* Bodies the provider answers with: every text in the shape of the
\* configured service, one well-formed text in the other shape, and the
\* bodies that lack something
Payloads(service_is_gemini) ==
    {IF service_is_gemini THEN ShapeB(t) ELSE ShapeA(t) : t \in Contents}
    \cup { IF service_is_gemini THEN ShapeA(<<49, 44, 75, 44, 48, 46, 57>>)
                     ELSE ShapeB(<<49, 44, 75, 44, 48, 46, 57>>),
           NotJson,
           Json(NoArray, NoArray),
           Json(Array(<< >>), Array(<< >>)),
           Json(Array(<<NoText>>), Array(<<NoText>>)) }

\* Keys asked of /cache/{keyword}: the digests of the comments
Keys == {hash_comment(c) : c \in Comments}

(***************************************************************************)
(* State                                                                   *)
(***************************************************************************)
VARIABLES
    gemini,        \* AI_SERVICE.to_lowercase() == "gemini"
    cache,         \* AppState.cache: digest -> AnalyzeResponse
    cacheLock,     \* holder of the AppState.cache mutex, 0 when free
    keywordCache,  \* KEYWORD_CACHE: keyword -> confidence
    pc,            \* where each request is
    req,           \* each request: kind, comment or key
    worker,        \* the worker thread serving each request, 0 when none is
    taskResult,    \* what the spawned analyze_comment returned
    response,      \* the HTTP response of each finished request
    calls,         \* provider calls made by each request
    received,      \* what the provider call of each request returned
    snap,          \* the result cache as the lookup of each /analyze request
                   \* found it, the keyword map as its scan found it
    norm,          \* a text and what normalize_fancy_text makes of it
    dropped        \* the requests whose handler future was dropped

vars == <<gemini, cache, cacheLock, keywordCache, pc, req, worker,
          taskResult, response, calls, received, snap, norm, dropped>>

EmptyMap == << >>
NoRequest == [kind |-> "none", arg |-> << >>]
Nothing == [none |-> TRUE]
NoSnap == [cache |-> EmptyMap, keywordCache |-> EmptyMap]

NoNorm == [stage |-> "none", text |-> << >>, once |-> << >>, twice |-> << >>]

\* HashMap::insert
Insert(m, k, v) == [x \in DOMAIN m \cup {k} |-> IF x = k THEN v ELSE m[x]]

\* HttpResponse::Ok().json(..), InternalServerError().body(..), NotFound().body(..)
Http(status, body) == [status |-> status, body |-> body]

Init ==
    /\ gemini \in BOOLEAN
    /\ cache = EmptyMap
    /\ cacheLock = 0
    /\ keywordCache = EmptyMap
    /\ pc = [r \in Requests |-> "idle"]
    /\ req = [r \in Requests |-> NoRequest]
    /\ worker = [r \in Requests |-> 0]
    /\ taskResult = [r \in Requests |-> Nothing]
    /\ response = [r \in Requests |-> Nothing]
    /\ calls = [r \in Requests |-> 0]
    /\ received = [r \in Requests |-> Nothing]
    /\ snap = [r \in Requests |-> NoSnap]
    /\ norm = NoNorm
    /\ dropped = {}

(***************************************************************************)
(* Worker threads (main.rs: .workers(8)).  Each worker runs its handlers   *)
(* and the tasks they spawn on one thread; a thread that waits in          *)
(* Mutex::lock runs nothing else until it gets the lock.                   *)
(***************************************************************************)
NumWorkers == 8

\* Workers are interchangeable: a request goes to a worker that is serving
\* a request or to the first of the others.
BusyWorkers == {worker[q] : q \in Requests} \ {0}
FreeWorkers == (1..NumWorkers) \ BusyWorkers
WorkerChoices ==
    BusyWorkers \cup {w \in FreeWorkers : \A v \in FreeWorkers : w <= v}

Blocked(w) == \E q \in Requests : pc[q] = "blocked" /\ worker[q] = w

(***************************************************************************)
(* main.rs: the handlers, from the lock to the first await or the return   *)
(***************************************************************************)
\* Variant: the entry is taken out of the map (remove) instead of read (get)
CacheHandlerRemove(r, rq, w) ==
    /\ response' = [response EXCEPT ![r] =
           IF rq.arg \in DOMAIN cache
           THEN Http(200, cache[rq.arg])
           ELSE Http(404, "Cache miss")]
    /\ cache' = [x \in DOMAIN cache \ {rq.arg} |-> cache[x]]
    /\ pc' = [pc EXCEPT ![r] = "done"]
    /\ worker' = [worker EXCEPT ![r] = 0]
    /\ UNCHANGED <<cacheLock, keywordCache, taskResult, calls, received, snap>>

\* GET /cache/{keyword}: lock, get, respond; the guard drops at the return
CacheHandler(r, rq, w) ==
    /\ response' = [response EXCEPT ![r] =
           IF rq.arg \in DOMAIN cache
           THEN Http(200, cache[rq.arg])
           ELSE Http(404, "Cache miss")]
    /\ pc' = [pc EXCEPT ![r] = "done"]
    /\ worker' = [worker EXCEPT ![r] = 0]
    /\ UNCHANGED <<cache, cacheLock, keywordCache, taskResult, calls,
                   received, snap>>

\* Variant: the lookup's early return is missing, every request spawns
AnalyzeHandlerNoEarlyReturn(r, rq, w) ==
    /\ snap' = [snap EXCEPT ![r] =
           [cache |-> cache, keywordCache |-> keywordCache]]
    /\ cacheLock' = r
    /\ pc' = [pc EXCEPT ![r] = "spawned"]
    /\ worker' = [worker EXCEPT ![r] = w]
    /\ UNCHANGED <<cache, keywordCache, taskResult, response, calls, received>>

\* Variant: the guard is dropped before the spawn instead of at the return
AnalyzeHandlerGuardDropped(r, rq, w) ==
    LET comment_hash == hash_comment(rq.arg)
    IN  /\ snap' = [snap EXCEPT ![r] =
               [cache |-> cache, keywordCache |-> keywordCache]]
        /\ IF comment_hash \in DOMAIN cache
           THEN /\ response' = [response EXCEPT ![r] =
                       Http(200, cache[comment_hash])]
                /\ pc' = [pc EXCEPT ![r] = "done"]
                /\ worker' = [worker EXCEPT ![r] = 0]
           ELSE /\ pc' = [pc EXCEPT ![r] = "spawned"]
                /\ worker' = [worker EXCEPT ![r] = w]
                /\ UNCHANGED response
        /\ UNCHANGED <<cache, cacheLock, keywordCache, taskResult, calls,
                       received>>

\* Variant: a miss for a digest that a running task is already analyzing
\* is turned away instead of spawning a task of its own
AnalyzeHandlerCoalesce(r, rq, w) ==
    LET comment_hash == hash_comment(rq.arg)
        inFlight == \E s \in Requests \ {r} :
                        /\ pc[s] \in {"spawned", "calling", "reading"}
                        /\ req[s].kind = "analyze"
                        /\ hash_comment(req[s].arg) = comment_hash
    IN  /\ snap' = [snap EXCEPT ![r] =
               [cache |-> cache, keywordCache |-> keywordCache]]
        /\ IF comment_hash \in DOMAIN cache \/ inFlight
           THEN /\ response' = [response EXCEPT ![r] =
                       IF comment_hash \in DOMAIN cache
                       THEN Http(200, cache[comment_hash])
                       ELSE Http(409, "Analysis in flight")]
                /\ pc' = [pc EXCEPT ![r] = "done"]
                /\ worker' = [worker EXCEPT ![r] = 0]
                /\ UNCHANGED cacheLock
           ELSE /\ cacheLock' = r
                /\ pc' = [pc EXCEPT ![r] = "spawned"]
                /\ worker' = [worker EXCEPT ![r] = w]
                /\ UNCHANGED response
        /\ UNCHANGED <<cache, keywordCache, taskResult, calls, received>>

\* POST /analyze up to the spawn: lock, hash, get; a hit responds and drops
\* the guard, a miss spawns analyze_comment and awaits it with the guard held
AnalyzeHandler(r, rq, w) ==
    LET comment_hash == hash_comment(rq.arg)
    IN  /\ snap' = [snap EXCEPT ![r] =
               [cache |-> cache, keywordCache |-> keywordCache]]
        /\ IF comment_hash \in DOMAIN cache
           THEN /\ response' = [response EXCEPT ![r] =
                       Http(200, cache[comment_hash])]
                /\ pc' = [pc EXCEPT ![r] = "done"]
                /\ worker' = [worker EXCEPT ![r] = 0]
                /\ UNCHANGED cacheLock
           ELSE /\ cacheLock' = r
                /\ pc' = [pc EXCEPT ![r] = "spawned"]
                /\ worker' = [worker EXCEPT ![r] = w]
                /\ UNCHANGED response
        /\ UNCHANGED <<cache, keywordCache, taskResult, calls, received>>

Handler(r, rq, w) ==
    IF rq.kind = "analyze" THEN AnalyzeHandler(r, rq, w)
    ELSE CacheHandler(r, rq, w)

\* A request reaches a worker and its handler calls data.cache.lock():
\* with the mutex taken the worker's thread waits in lock()
Begin(r) ==
    /\ pc[r] = "idle"
    /\ IF r = 1 THEN TRUE ELSE pc[r - 1] # "idle"
    /\ \E w \in WorkerChoices :
         /\ ~Blocked(w)
         /\ \E rq \in {[kind |-> "analyze", arg |-> c] : c \in Comments}
                  \cup {[kind |-> "cache", arg |-> k] : k \in Keys} :
              /\ req' = [req EXCEPT ![r] = rq]
              /\ IF cacheLock # 0
                 THEN /\ pc' = [pc EXCEPT ![r] = "blocked"]
                      /\ worker' = [worker EXCEPT ![r] = w]
                      /\ UNCHANGED <<cache, cacheLock, keywordCache, taskResult,
                                     response, calls, received, snap>>
                 ELSE Handler(r, rq, w)
    /\ UNCHANGED <<gemini, norm, dropped>>

\* lock() returns once the mutex is free
Unblock(r) ==
    /\ pc[r] = "blocked"
    /\ cacheLock = 0
    /\ Handler(r, req[r], worker[r])
    /\ UNCHANGED <<gemini, req, norm, dropped>>

(***************************************************************************)
(* analyzer.rs: analyze_comment, run as the spawned task                   *)
(***************************************************************************)
\* The keywords the scan of KEYWORD_CACHE can stop at: HashMap iteration
\* order is arbitrary, so any matching keyword can be the first one met
KeywordMatches(comment) ==
    LET normalized_comment == normalize_fancy_text(comment)
        sanitzed_comment   == remove_all_whitespace(normalized_comment)
    IN  {k \in DOMAIN keywordCache : Contains(sanitzed_comment, ToUppercase(k))}

\* The task of request r returns.  The handler that awaits the JoinHandle
\* is woken; with the handler future dropped the task is detached and its
\* output is dropped with it.
TaskEnds(r) ==
    IF r \in dropped
    THEN /\ pc' = [pc EXCEPT ![r] = "gone"]
         /\ worker' = [worker EXCEPT ![r] = 0]
    ELSE /\ pc' = [pc EXCEPT ![r] = "joined"]
         /\ UNCHANGED worker

\* Lines 77..127: the scan, and on a miss the request sent to the provider
Scan(r) ==
    /\ pc[r] = "spawned"
    /\ ~Blocked(worker[r])
    /\ snap' = [snap EXCEPT ![r].keywordCache = keywordCache]
    /\ LET matches == KeywordMatches(req[r].arg)
       IN  IF matches # {}
           THEN /\ \E k \in matches :
                     taskResult' = [taskResult EXCEPT ![r] =
                         Ok(TRUE, k, keywordCache[k])]
                /\ TaskEnds(r)
                /\ UNCHANGED calls
           ELSE /\ pc' = [pc EXCEPT ![r] = "calling"]
                /\ calls' = [calls EXCEPT ![r] = @ + 1]
                /\ UNCHANGED <<taskResult, worker>>
    /\ UNCHANGED <<gemini, cache, cacheLock, keywordCache, req, response,
                   received, norm, dropped>>

\* What analyze_comment returns for an outcome of the provider call
TaskOutcome(outcome) ==
    IF outcome.transport THEN ParseResponse(gemini, outcome.payload)
    ELSE ReqwestError

\* Variant: the insert runs on every path, with the initial values of
\* keyword and confidence (lines 140..141) when the parse failed
RecordKeywordOnEveryPath(result) ==
    IF result.ok THEN Insert(keywordCache, result.keyword, result.confidence)
    ELSE Insert(keywordCache, << >>, Decimal(FALSE, 0, 0))

\* Lines 178..179: the keyword of a parsed answer goes into KEYWORD_CACHE
RecordKeyword(result) ==
    IF result.ok THEN Insert(keywordCache, result.keyword, result.confidence)
    ELSE keywordCache

\* What the task gets when send() or text() fails
TransportFailure == [transport |-> FALSE, payload |-> NotJson]

\* Lines 115 and 127: send().await resolves.  With an error the task
\* returns it; with a response the task goes on to text().await and waits
\* for the body.
SendReturn(r) ==
    /\ pc[r] = "calling"
    /\ ~Blocked(worker[r])
    /\ \E sent \in BOOLEAN :
         IF sent
         THEN /\ pc' = [pc EXCEPT ![r] = "reading"]
              /\ UNCHANGED <<received, taskResult, worker>>
         ELSE /\ received' = [received EXCEPT ![r] = TransportFailure]
              /\ taskResult' = [taskResult EXCEPT ![r] =
                     TaskOutcome(TransportFailure)]
              /\ TaskEnds(r)
    /\ UNCHANGED <<gemini, cache, cacheLock, keywordCache, req, response,
                   calls, snap, norm, dropped>>

\* Variant: a failed read or parse is followed by a second provider call
TextReturnRetry(r) ==
    /\ pc[r] = "reading"
    /\ ~Blocked(worker[r])
    /\ \E outcome \in {[transport |-> TRUE, payload |-> p] : p \in Payloads(gemini)}
                      \cup {TransportFailure} :
         /\ received' = [received EXCEPT ![r] = outcome]
         /\ keywordCache' = RecordKeyword(TaskOutcome(outcome))
         /\ IF ~TaskOutcome(outcome).ok /\ calls[r] < 2
            THEN /\ calls' = [calls EXCEPT ![r] = @ + 1]
                 /\ pc' = [pc EXCEPT ![r] = "calling"]
                 /\ UNCHANGED <<taskResult, worker>>
            ELSE /\ taskResult' = [taskResult EXCEPT ![r] = TaskOutcome(outcome)]
                 /\ TaskEnds(r)
                 /\ UNCHANGED calls
    /\ UNCHANGED <<gemini, cache, cacheLock, req, response, snap, norm,
                   dropped>>

\* Lines 117..186 (129..186): text().await resolves, with an error or with
\* the body; the body is parsed and the keyword of a parsed answer recorded
TextReturn(r) ==
    /\ pc[r] = "reading"
    /\ ~Blocked(worker[r])
    /\ \E outcome \in {[transport |-> TRUE, payload |-> p] : p \in Payloads(gemini)}
                      \cup {TransportFailure} :
         /\ received' = [received EXCEPT ![r] = outcome]
         /\ taskResult' = [taskResult EXCEPT ![r] = TaskOutcome(outcome)]
         /\ keywordCache' = RecordKeyword(TaskOutcome(outcome))
    /\ TaskEnds(r)
    /\ UNCHANGED <<gemini, cache, cacheLock, req, response, calls, snap,
                   norm, dropped>>

(***************************************************************************)
(* main.rs lines 71..85: the handler awaits the task, then resumes with    *)
(* its result; or its future is dropped while it waits                     *)
(***************************************************************************)
\* Disconnects the model follows
MaxDrops == 1

\* The connection of request r goes away while its handler awaits the
\* JoinHandle (lines 71..73), and the HTTP layer drops the handler future:
\* the MutexGuard cached_data and the JoinHandle drop with it, nothing is
\* answered and nothing inserted.  A task that has not returned is
\* detached and runs on; the output of one that has is dropped.
Disconnect(r) ==
    /\ pc[r] \in {"spawned", "calling", "reading", "joined"}
    /\ r \notin dropped
    /\ Cardinality(dropped) < MaxDrops
    /\ ~Blocked(worker[r])
    /\ dropped' = dropped \cup {r}
    /\ cacheLock' = IF cacheLock = r THEN 0 ELSE cacheLock
    /\ IF pc[r] = "joined"
       THEN /\ pc' = [pc EXCEPT ![r] = "gone"]
            /\ worker' = [worker EXCEPT ![r] = 0]
       ELSE UNCHANGED <<pc, worker>>
    /\ UNCHANGED <<gemini, cache, keywordCache, req, taskResult, response,
                   calls, received, snap, norm>>

\* Variant: the mutex is released on the Ok arm only
ReleaseLockOnOkOnly(r) == IF taskResult[r].ok THEN 0 ELSE cacheLock

\* The guard held since line 63 drops at the return, on either arm
ReleaseLock(r) == 0

\* Variant: only the result of a provider call is stored, the result of a
\* keyword match is returned without an insert
ResumeProviderResultsOnly(r) ==
    /\ pc[r] = "joined"
    /\ ~Blocked(worker[r])
    /\ IF taskResult[r].ok
       THEN /\ cache' = IF received[r] # Nothing
                        THEN Insert(cache, hash_comment(req[r].arg), taskResult[r])
                        ELSE cache
            /\ response' = [response EXCEPT ![r] = Http(200, taskResult[r])]
       ELSE /\ response' = [response EXCEPT ![r] = Http(500, taskResult[r].err)]
            /\ UNCHANGED cache
    /\ cacheLock' = ReleaseLock(r)
    /\ pc' = [pc EXCEPT ![r] = "done"]
    /\ worker' = [worker EXCEPT ![r] = 0]
    /\ UNCHANGED <<gemini, keywordCache, req, taskResult, calls, received,
                   snap, norm, dropped>>

\* The handler resumes: Ok is stored under the digest and answered 200, Err
\* is answered 500
Resume(r) ==
    /\ pc[r] = "joined"
    /\ ~Blocked(worker[r])
    /\ IF taskResult[r].ok
       THEN /\ cache' = Insert(cache, hash_comment(req[r].arg), taskResult[r])
            /\ response' = [response EXCEPT ![r] = Http(200, taskResult[r])]
       ELSE /\ response' = [response EXCEPT ![r] = Http(500, taskResult[r].err)]
            /\ UNCHANGED cache
    /\ cacheLock' = ReleaseLock(r)
    /\ pc' = [pc EXCEPT ![r] = "done"]
    /\ worker' = [worker EXCEPT ![r] = 0]
    /\ UNCHANGED <<gemini, keywordCache, req, taskResult, calls, received,
                   snap, norm, dropped>>

Next ==
    \E r \in Requests :
        \/ Begin(r)
        \/ Unblock(r)
        \/ Scan(r)
        \/ SendReturn(r)
        \/ TextReturn(r)
        \/ Disconnect(r)
        \/ Resume(r)

Spec == Init /\ [][Next]_vars

(***************************************************************************)
(* normalize_fancy_text on its own: a text of at most MaxLen characters is *)
(* normalized, and the result is normalized again                          *)
(***************************************************************************)
\* 'A' 'k' '7' ' ' '!' NBSP e-acute, combining acute, Armenian eh, Kelvin
\* sign, ligature fi, negative squared K
Alphabet == {65, 107, 55, 32, 33, 160, 233, 769, 1383, 8490, 64257, 127354}

Texts == UNION {[1..n -> Alphabet] : n \in 0..MaxLen}

server == <<gemini, cache, cacheLock, keywordCache, pc, req, worker,
            taskResult, response, calls, received, snap, dropped>>

InitNormalize ==
    /\ gemini = FALSE
    /\ cache = EmptyMap
    /\ cacheLock = 0
    /\ keywordCache = EmptyMap
    /\ pc = [r \in Requests |-> "idle"]
    /\ req = [r \in Requests |-> NoRequest]
    /\ worker = [r \in Requests |-> 0]
    /\ taskResult = [r \in Requests |-> Nothing]
    /\ response = [r \in Requests |-> Nothing]
    /\ calls = [r \in Requests |-> 0]
    /\ received = [r \in Requests |-> Nothing]
    /\ snap = [r \in Requests |-> NoSnap]
    /\ dropped = {}
    /\ \E t \in Texts :
         norm = [stage |-> "text", text |-> t, once |-> << >>, twice |-> << >>]

Normalize ==
    /\ norm.stage = "text"
    /\ norm' = [norm EXCEPT !.stage = "once",
                            !.once = normalize_fancy_text(norm.text)]
    /\ UNCHANGED server

NormalizeAgain ==
    /\ norm.stage = "once"
    /\ norm' = [norm EXCEPT !.stage = "twice",
                            !.twice = normalize_fancy_text(norm.once)]
    /\ UNCHANGED server

NextNormalize == Normalize \/ NormalizeAgain

SpecNormalize == InitNormalize /\ [][NextNormalize]_vars

(***************************************************************************)
(* Properties                                                              *)
(***************************************************************************)
PermitCapacity == 1

\* The step in which request r, of the given kind, gets the mutex and looks
\* its key up
Lookup(r, kind) ==
    /\ pc[r] \in {"idle", "blocked"}
    /\ pc'[r] \notin {"idle", "blocked"}
    /\ req'[r].kind = kind

Analyzed(r) == req[r].kind = "analyze" /\ pc[r] \notin {"idle", "blocked"}

\* Request r is inside the provider call: it waits for the response or for
\* the body of the response
InProviderCall(r) == pc[r] \in {"calling", "reading"}

\* C1: a POST /analyze whose digest is in the result cache at its lookup
\* answers 200 with exactly the cached value in that same step: no
\* analyze_comment task (so no keyword scan and no provider call), both maps
\* and the mutex left as they were.
CacheHitShortCircuit ==
    [][\A r \in Requests :
          (Lookup(r, "analyze") /\ hash_comment(req'[r].arg) \in DOMAIN cache)
          => /\ pc'[r] = "done"
             /\ response'[r] = Http(200, cache[hash_comment(req'[r].arg)])
             /\ calls'[r] = 0
             /\ taskResult'[r] = Nothing
             /\ cache' = cache
             /\ keywordCache' = keywordCache
             /\ cacheLock' = cacheLock]_vars

\* A finished /analyze request that found its digest in the result cache
CacheHitWitness ==
    \E r \in Requests :
        /\ pc[r] = "done"
        /\ req[r].kind = "analyze"
        /\ hash_comment(req[r].arg) \in DOMAIN snap[r].cache
        /\ response[r].status = 200
        /\ calls[r] = 0

\* C2: a request that misses the result cache while the keyword map holds
\* the single entry (k, c), and whose normalized comment contains the
\* upper-cased k, is answered {spam: true, keyword: k, confidence: c}
\* without a provider call.
KeywordShortCircuit ==
    \A r \in Requests :
        \A k \in DOMAIN snap[r].keywordCache :
            ( /\ Analyzed(r)
              /\ pc[r] # "spawned"
              /\ hash_comment(req[r].arg) \notin DOMAIN snap[r].cache
              /\ DOMAIN snap[r].keywordCache = {k}
              /\ Contains(normalize_fancy_text(req[r].arg), ToUppercase(k)) )
            => /\ calls[r] = 0
               /\ taskResult[r] = Ok(TRUE, k, snap[r].keywordCache[k])

\* C3: at most PermitCapacity requests are inside the provider call.  The
\* code has no permit pool: what gates the call is the mutex of the result
\* cache, which admits one request.
ConcurrencyBound ==
    Cardinality({r \in Requests : InProviderCall(r)}) <= PermitCapacity

\* The step in which the task of request r returns a failure
TaskFails(r) ==
    /\ pc[r] \in {"calling", "reading"}
    /\ pc'[r] \in {"joined", "gone"}
    /\ ~taskResult'[r].ok

AdmissionNeverLeaked ==
    /\ \A r \in Requests :
         (pc[r] \in {"done", "gone"} \/ r \in dropped) => cacheLock # r
    /\ cacheLock # 0
       => pc[cacheLock] \in {"spawned", "calling", "reading", "joined"}

\* After a request failed, a later one is inside the provider call
AdmissionWitness ==
    \E r, q \in Requests :
        /\ r < q
        /\ pc[r] = "done"
        /\ response[r].status = 500
        /\ pc[q] = "calling"

\* The array the configured service reads from the body request r received,
\* and whether its first item carries a text
ReceivedArray(r) ==
    IF gemini THEN received[r].payload.candidates
    ELSE received[r].payload.choices

OtherArray(r) ==
    IF gemini THEN received[r].payload.choices
    ELSE received[r].payload.candidates

Parsed(r) == pc[r] \in {"joined", "done", "gone"} /\ received[r] # Nothing

HasText(r) ==
    /\ Parsed(r)
    /\ received[r].transport
    /\ received[r].payload.json
    /\ ReceivedArray(r).present
    /\ ReceivedArray(r).items # << >>
    /\ ReceivedArray(r).items[1].isStr

ReceivedFields(r) == Split(ReceivedArray(r).items[1].text, 44)

\* C6: when the text of the provider's answer does not split on ',' into
\* exactly three fields the task returns the failure "Invalid content
\* format", never a result; the step that reads such an answer writes
\* neither map, and the request ends 500 having written neither (with no
\* other task beside it, both maps are as it found them).
MalformedContentRejected ==
    [][\A r \in Requests :
          /\ (pc[r] = "reading" /\ received'[r] # Nothing /\ HasText(r)'
                /\ Len(ReceivedFields(r))' # 3)
             => /\ taskResult'[r] = GenericError("Invalid content format")
                /\ cache' = cache
                /\ keywordCache' = keywordCache
          /\ (HasText(r) /\ Len(ReceivedFields(r)) # 3)
             => /\ taskResult[r] = GenericError("Invalid content format")
                /\ (pc[r] = "joined" /\ pc'[r] = "done")
                   => /\ response'[r].status = 500
                      /\ cache' = cache
                      /\ keywordCache' = keywordCache
                      /\ dropped = {}
                         => /\ cache' = snap[r].cache
                            /\ keywordCache' = snap[r].keywordCache]_vars

\* Requests have ended on a two-field answer and on a four-field answer
MalformedContentWitness ==
    \E r, q \in Requests :
        /\ pc[r] = "done" /\ HasText(r) /\ Len(ReceivedFields(r)) = 2
        /\ pc[q] = "done" /\ HasText(q) /\ Len(ReceivedFields(q)) = 4
        /\ response[r].status = 500
        /\ response[q].status = 500

\* C7: a result is returned only when field 1 of the answer is the integer
\* 1 or the integer 0.
SpamFlagStrict ==
    \A r \in Requests :
        (HasText(r) /\ taskResult[r].ok)
        => /\ ParseI32(ReceivedFields(r)[1]).ok
           /\ ParseI32(ReceivedFields(r)[1]).val \in {0, 1}

\* C8: an answer "s,k,c" under the array of the configured service gives
\* {spam: s = 1, keyword: k, confidence: c} ("1,K,0.9" gives spam with
\* confidence 9/10, "0,7,0.10" gives not spam with confidence 1/10), and a
\* body that has only the other service's array gives a failure.
ParserShapeSelection ==
    \A r \in Requests :
        /\ HasText(r)
           => LET fields == ReceivedFields(r)
                  s      == ParseI32(fields[1])
                  c      == ParseF64(fields[3])
              IN  (Len(fields) = 3 /\ s.ok /\ c.ok)
                  => taskResult[r] = Ok(s.val = 1, fields[2], c.val)
        /\ (HasText(r) /\ ReceivedArray(r).items[1].text = <<49, 44, 75, 44, 48, 46, 57>>)
           => taskResult[r] = Ok(TRUE, <<75>>, [neg |-> FALSE, mant |-> 9, exp |-> -1])
        /\ (HasText(r) /\ ReceivedArray(r).items[1].text = <<48, 44, 55, 44, 48, 46, 49, 48>>)
           => taskResult[r] = Ok(FALSE, <<55>>, [neg |-> FALSE, mant |-> 1, exp |-> -1])
        /\ ( /\ Parsed(r)
             /\ received[r].transport
             /\ received[r].payload.json
             /\ ~ReceivedArray(r).present
             /\ OtherArray(r).present )
           => taskResult[r] = GenericError("Invalid response format")

\* One request got a result from the configured shape, another a failure
\* from a well-formed answer in the other shape
ParserShapeWitness ==
    \E r, q \in Requests :
        /\ HasText(r) /\ taskResult[r].ok /\ ~taskResult[r].spam
        /\ Parsed(q) /\ received[q].transport /\ received[q].payload.json
        /\ ~ReceivedArray(q).present
        /\ OtherArray(q).present
        /\ OtherArray(q).items[1].isStr
        /\ ~taskResult[q].ok

\* C9: GET /cache/{key} answers 200 with the entry of the key when the
\* result cache has one and 404 otherwise, in one step that changes neither
\* map, starts no task, makes no provider call and leaves the mutex free.
CacheLookupReadOnly ==
    [][\A r \in Requests :
          Lookup(r, "cache")
          => /\ pc'[r] = "done"
             /\ response'[r] =
                    IF req'[r].arg \in DOMAIN cache
                    THEN Http(200, cache[req'[r].arg])
                    ELSE Http(404, "Cache miss")
             /\ cache' = cache
             /\ keywordCache' = keywordCache
             /\ calls' = calls
             /\ taskResult' = taskResult
             /\ cacheLock' = cacheLock]_vars

\* A lookup found the entry an earlier /analyze request had stored
CacheLookupWitness ==
    \E r, q \in Requests :
        /\ req[q].kind = "analyze" /\ pc[q] = "done"
        /\ req[r].kind = "cache" /\ pc[r] = "done"
        /\ req[r].arg = hash_comment(req[q].arg)
        /\ taskResult[q].ok
        /\ response[r].status = 200
        /\ response[r].body = taskResult[q]
        /\ req[r].arg \in DOMAIN cache
        /\ cache[req[r].arg] = taskResult[q]

\* C10: normalizing a normalized text changes nothing.
NormalizeIdempotent ==
    norm.stage = "twice" => norm.twice = norm.once

\* A text that normalization changes, without emptying it, was normalized
\* twice
NormalizeWitness ==
    /\ norm.stage = "twice"
    /\ norm.once # norm.text
    /\ Len(norm.once) = Len(norm.text)
    /\ \E i \in 1..Len(norm.text) : norm.text[i] = 127354

\* Whether request r holds the KEYWORD_CACHE mutex between two steps: the
\* guard of the scan lives in the block of lines 79..99 and the guard of the
\* insert from line 178 to the return, and neither span has an await
KeywordLockHeld(r) == FALSE

\* C11: a request that is inside the provider call holds neither the mutex
\* of the result cache nor the mutex of the keyword map.
NoLockAcrossProviderCall ==
    \A r \in Requests :
        InProviderCall(r) => (cacheLock # r /\ ~KeywordLockHeld(r))

\* C12: no request waits in lock() for the mutex of the result cache while
\* the request that holds the mutex cannot run (its worker's thread being
\* the one that waits), so that every request gets to its response once the
\* provider calls return.
LockHolderCanProgress ==
    \A q \in Requests :
        (pc[q] = "blocked" /\ cacheLock # 0) => ~Blocked(worker[cacheLock])

\* The step in which request r, whose task has returned, ends
Responds(r) == pc[r] = "joined" /\ pc'[r] = "done"

\* Request r was answered by the scan of the keyword map
KeywordHit(r) ==
    /\ req[r].kind = "analyze"
    /\ pc[r] \in {"joined", "done"}
    /\ taskResult[r] # Nothing
    /\ received[r] = Nothing

\* C13 as stated: a request answered by the keyword scan leaves the result
\* cache unchanged, and the result cache changes only in the step of a
\* request whose provider call and parse succeeded.
KeywordHitWritesNothing ==
    [][/\ \A r \in Requests :
            (Responds(r) /\ KeywordHit(r)) => cache' = cache
       /\ cache' # cache
          => \E r \in Requests :
                Responds(r) /\ received[r] # Nothing /\ taskResult[r].ok]_vars

\* C13, amended: the result cache changes only in the step of a request
\* whose task returned Ok, from a parsed provider answer or from a keyword
\* match, and the change is the insert of that result under the request's
\* digest; a request answered by the keyword scan makes that insert too,
\* and leaves the keyword map unchanged.
ResultCacheInsertsOkResults ==
    [][/\ cache' # cache
          => \E r \in Requests :
                /\ Responds(r)
                /\ taskResult[r].ok
                /\ cache' = Insert(cache, hash_comment(req[r].arg), taskResult[r])
       /\ \A r \in Requests :
            (Responds(r) /\ KeywordHit(r))
            => /\ taskResult[r].ok
               /\ taskResult[r].spam
               /\ hash_comment(req[r].arg) \notin DOMAIN cache
               /\ cache' = Insert(cache, hash_comment(req[r].arg), taskResult[r])
               /\ keywordCache' = keywordCache]_vars

\* A request answered by the keyword scan has ended, and the result cache
\* holds its result
KeywordHitCachedWitness ==
    \E r \in Requests :
        /\ pc[r] = "done"
        /\ KeywordHit(r)
        /\ calls[r] = 0
        /\ hash_comment(req[r].arg) \notin DOMAIN snap[r].cache
        /\ hash_comment(req[r].arg) \in DOMAIN cache
        /\ cache[hash_comment(req[r].arg)] = taskResult[r]
        /\ response[r] = Http(200, taskResult[r])

\* C14: there is an execution in which two requests with the same digest,
\* neither finding an entry at its lookup, each make a provider call, the
\* calls overlapping and the first request's call succeeding.  Nothing
\* stands in its way: a lookup that finds no entry for its digest spawns
\* analyze_comment with the mutex taken, and a task whose scan matches no
\* keyword makes its provider call, whatever tasks are in flight, one for
\* the same digest included.
NoInFlightDeduplication ==
    [][\A q \in Requests :
          /\ (Lookup(q, "analyze")
                /\ hash_comment(req'[q].arg) \notin DOMAIN cache)
             => /\ pc'[q] = "spawned"
                /\ cacheLock' = q
                /\ response'[q] = Nothing
          /\ (pc[q] = "spawned" /\ pc'[q] # "spawned"
                /\ KeywordMatches(req[q].arg) = {})
             => /\ pc'[q] = "calling"
                /\ calls'[q] = calls[q] + 1]_vars

\* Request r looked its digest up first and missed, its handler future was
\* dropped and its provider call succeeded; request q, same digest, missed
\* too and scanned before the call of r returned (the keyword of r was not
\* in the map yet), and its own call returned a result as well
DuplicateCallWitness ==
    \E r, q \in Requests :
        /\ r # q
        /\ req[r].kind = "analyze"
        /\ req[q].kind = "analyze"
        /\ hash_comment(req[r].arg) = hash_comment(req[q].arg)
        /\ hash_comment(req[r].arg) \notin DOMAIN snap[r].cache
        /\ hash_comment(req[q].arg) \notin DOMAIN snap[q].cache
        /\ r \in dropped
        /\ pc[r] = "gone"
        /\ calls[r] = 1
        /\ received[r] # Nothing
        /\ taskResult[r].ok
        /\ taskResult[r].keyword \notin DOMAIN snap[q].keywordCache
        /\ pc[q] \in {"joined", "done"}
        /\ calls[q] = 1
        /\ received[q] # Nothing
        /\ taskResult[q].ok

\* Keyword k comes from a parsed provider answer that said spam
FlaggedAsSpam(k) ==
    \E q \in Requests :
        /\ received[q] # Nothing
        /\ taskResult[q].ok
        /\ taskResult[q].spam
        /\ taskResult[q].keyword = k

\* C15: every keyword of the keyword map was recorded from a parsed provider
\* answer with spam = true, so that the result of a keyword match, always
\* spam = true, carries a keyword the provider flagged as spam.
KeywordIndexSpamOnly ==
    /\ \A k \in DOMAIN keywordCache : FlaggedAsSpam(k)
    /\ \A r \in Requests :
         KeywordHit(r) => FlaggedAsSpam(taskResult[r].keyword)

\* Keyword k has an ASCII letter
HasLetter(k) ==
    \E i \in 1..Len(k) : (k[i] \in 65..90) \/ (k[i] \in 97..122)

\* The keywords with a letter that the keyword map held at the lookup of
\* request r and that the comment of r, as posted, contains
LearnedKeywordsIn(r) ==
    {k \in DOMAIN snap[r].keywordCache : HasLetter(k) /\ Contains(req[r].arg, k)}

\* C16: a request that misses the result cache, and whose comment as posted
\* contains a keyword with letters that an earlier provider call recorded,
\* is answered by the keyword scan, spam = true with such a keyword, without
\* a provider call.
LearnedKeywordAnswers ==
    \A r \in Requests :
        ( /\ Analyzed(r)
          /\ pc[r] # "spawned"
          /\ hash_comment(req[r].arg) \notin DOMAIN snap[r].cache
          /\ LearnedKeywordsIn(r) # {} )
        => /\ calls[r] = 0
           /\ taskResult[r].ok
           /\ taskResult[r].spam
           /\ taskResult[r].keyword \in LearnedKeywordsIn(r)

\* Digest and scanned text of each comment, as the handler (main.rs:64) and
\* the task (analyzer.rs:77..78) compute them
DigestOf == [c \in Comments |-> hash_comment(c)]
ScannedTextOf ==
    [c \in Comments |-> remove_all_whitespace(normalize_fancy_text(c))]

\* Request r missed the result cache and the scan of the keyword map
MissedBoth(r) ==
    /\ Analyzed(r)
    /\ pc[r] # "spawned"
    /\ DigestOf[req[r].arg] \notin DOMAIN snap[r].cache
    /\ \A k \in DOMAIN snap[r].keywordCache :
         ~Contains(ScannedTextOf[req[r].arg], ToUppercase(k))

\* C17: no request makes more than one provider call, a request that missed
\* the result cache and the keyword scan has made exactly one, and when
\* that call or its parse fails the task's result is the failure, answered
\* 500 with its message, still with one call made.
OneProviderCall ==
    \A r \in Requests :
        /\ calls[r] <= 1
        /\ LET missed == MissedBoth(r)
           IN  /\ missed <=> calls[r] = 1
               /\ (missed /\ pc[r] = "joined")
                  => /\ received[r] # Nothing
                     /\ taskResult[r] = TaskOutcome(received[r])
               /\ (missed /\ pc[r] = "gone") => received[r] # Nothing
               /\ (missed /\ pc[r] = "done")
                  => /\ received[r] # Nothing
                     /\ ~taskResult[r].ok
                        => response[r] = Http(500, taskResult[r].err)

\* A request that missed a result cache and a keyword map with entries has
\* ended in failure after its one provider call
FailedCallWitness ==
    \E r \in Requests :
        /\ MissedBoth(r)
        /\ snap[r].cache # EmptyMap
        /\ snap[r].keywordCache # EmptyMap
        /\ pc[r] = "done"
        /\ ~taskResult[r].ok
        /\ calls[r] = 1
        /\ response[r].status = 500

\* C18: an entry of the result cache is never removed and its value never
\* changes, whatever requests run and however they interleave.
ResultCacheWriteOnce ==
    [][\A h \in DOMAIN cache :
          h \in DOMAIN cache' /\ cache'[h] = cache[h]]_vars

\* Two /analyze requests with the same digest have ended, the first stored
\* its result and the later one found it; the entry is the first's result
WriteOnceWitness ==
    \E r, q \in Requests :
        /\ r # q
        /\ req[r].kind = "analyze" /\ pc[r] = "done"
        /\ req[q].kind = "analyze" /\ pc[q] = "done"
        /\ hash_comment(req[r].arg) = hash_comment(req[q].arg)
        /\ req[r].arg # req[q].arg
        /\ taskResult[r] # Nothing
        /\ taskResult[r].ok
        /\ hash_comment(req[q].arg) \in DOMAIN snap[q].cache
        /\ calls[r] = 1
        /\ cache[hash_comment(req[r].arg)] = taskResult[r]

\* C19: once a POST /analyze has been answered 200, by a provider call or
\* by a keyword match, every /analyze lookup made after that for a comment
\* with the same normalized text is answered 200 with the same result in
\* the lookup's own step: no task, no provider call, and nothing the
\* keyword map has come to hold changes the answer.
AnswersStable ==
    [][\A r, q \in Requests :
          ( /\ r # q
            /\ req[r].kind = "analyze"
            /\ pc[r] = "done"
            /\ response[r].status = 200
            /\ Lookup(q, "analyze")
            /\ normalize_fancy_text(req'[q].arg) = normalize_fancy_text(req[r].arg) )
          => /\ pc'[q] = "done"
             /\ response'[q] = response[r]
             /\ calls'[q] = 0
             /\ taskResult'[q] = Nothing
             /\ keywordCache' = keywordCache]_vars

\* A request was answered "not spam" from a provider call that recorded its
\* keyword; a later request with another comment of the same normalized
\* text, which that keyword matches, got the same answer and made no call
StableAnswerWitness ==
    \E r, q \in Requests :
        /\ r # q
        /\ req[r].kind = "analyze" /\ pc[r] = "done"
        /\ req[q].kind = "analyze" /\ pc[q] = "done"
        /\ req[r].arg # req[q].arg
        /\ normalize_fancy_text(req[r].arg) = normalize_fancy_text(req[q].arg)
        /\ calls[r] = 1
        /\ response[r].status = 200
        /\ ~response[r].body.spam
        /\ KeywordMatches(req[q].arg) # {}
        /\ calls[q] = 0
        /\ response[q] = response[r]

====
